---------------------------- MODULE Spec2Model ----------------------------
(***************************************************************************)
(* The cfn-guard pre-commit hook (src/pre_commit_hooks/cfn_guard.py):      *)
(* main() builds one command per filename and hands it to run_cfn_guard(), *)
(* which spawns the binary at install_dir/<binary name> or, when that file *)
(* is absent, calls install_cfn_guard() and then itself again.             *)
(*                                                                         *)
(* The install directory is a shared filesystem resource, so the program   *)
(* text is modelled per process (Procs) over one shared filesystem.        *)
(* Strings are TLA+ strings, f-strings are \o concatenations, an archive   *)
(* member's path is the sequence of its "/"-separated components, file     *)
(* content is a sequence of bytes and None is the empty tuple.             *)
(***************************************************************************)
EXTENDS Integers, Sequences, FiniteSets, TLC

(* ------------------------------ bounds -------------------------------- *)

\* longest filenames list handed to main
MaxFiles == 2
\* how many times install_cfn_guard() is called directly after main ended
MaxDirectInstalls == 2

(* ------------------------- module-level constants ---------------------- *)

BIN_NAME == "cfn-guard"
UNSUPPORTED_OS_MSG == "Unsupported operating system. Could not install cfn-guard."
UNKNOWN_OPERATION_MSG == "Unknown operation. cfn-guard pre-commit-hook only supports validate and test commands."
supported_oses == {"linux", "darwin", "windows"}
install_dir == "~/.cfn-guard-pre-commit"

\* argparse leaves an option that was never given at None
None == << >>

\* the processes that can run the hook; a process that a specification does
\* not start stays at "off"
Procs == {1, 2}

\* values of platform.system().lower() the model runs on
HostOses == {"linux", "darwin", "windows", "freebsd"}

\* exit statuses of cfn-guard: 0 pass, 19 validation failure, 7 failing
\* tests (src/pre_commit_hooks_tests/test_cfn_guard.py); 126 is the shell's
\* status for a file it cannot execute
ExitCodes == {0, 7, 19}
CannotExecute == {126}

\* file modes: what open(..., "wb") creates, and what chmod 0o755 sets
ModeCreated == "0644"
ModeExecutable == "0755"

VARIABLES
    current_os,   \* platform.system().lower(), fixed at import
    operation,    \* args.operation : list of str
    rules,        \* args.rules     : list of str or None
    dir,          \* args.dir       : list of str or None
    filenames,    \* args.filenames : list of str
    archive,      \* members of the release tarball the URL serves
    dirExists,    \* install_dir exists
    files,        \* install_dir: file name -> [content, mode]
    pc,           \* per process: position in the program text
    caller,       \* per process: "main", or "direct" for a bare install_cfn_guard()
    idx,          \* per process: filenames already iterated by main's for loop
    exit_code,    \* per process: main's exit_code
    result,       \* per process: main's result
    cmd,          \* per process: main's cmd / run_cfn_guard's args
    depth,        \* per process: nesting of run_cfn_guard frames
    err,          \* per process: the exception propagating, or NoErr
    tmp,          \* per process: its NamedTemporaryFile exists
    mi,           \* per process: index of the tar member being extracted
    off,          \* per process: bytes of that member already copied
    hist          \* per process: log of what the process has done

argvVars == <<operation, rules, dir, filenames>>
envVars == <<current_os, archive>>
fsVars == <<dirExists, files>>
mainVars == <<idx, exit_code, result, cmd>>
instVars == <<tmp, mi, off>>
vars == <<current_os, operation, rules, dir, filenames, archive,
          dirExists, files, pc, caller, idx, exit_code, result, cmd, depth,
          err, tmp, mi, off, hist>>

(* ------------------------------ helpers -------------------------------- *)

get_binary_name == BIN_NAME \o (IF current_os = "windows" THEN ".exe" ELSE "")

\* os.path.basename of a member name given as its path components
basename(name) == IF Len(name) = 0 THEN "" ELSE name[Len(name)]

\* os.path.exists(binary_path)
BinaryExists == dirExists /\ get_binary_name \in DOMAIN files

\* exceptions
\* (CfnGuardPreCommitError.code is None or an int: a sequence of length <= 1)
NoErr == [type |-> "none", message |-> "", code |-> None]
UnknownOperationErr ==
    [type |-> "CfnGuardPreCommitError", message |-> UNKNOWN_OPERATION_MSG, code |-> None]
UnsupportedOsErr ==
    [type |-> "CfnGuardPreCommitError",
     message |-> UNSUPPORTED_OS_MSG \o ": " \o current_os, code |-> <<1>>]
TypeErr == [type |-> "TypeError", message |-> "'NoneType' object is not subscriptable", code |-> None]
URLErr == [type |-> "URLError", message |-> "", code |-> None]
OSErr == [type |-> "OSError", message |-> "", code |-> None]
FileNotFoundErr == [type |-> "FileNotFoundError", message |-> "", code |-> None]
FileExistsErr == [type |-> "FileExistsError", message |-> "", code |-> None]
CalledProcessErr == [type |-> "CalledProcessError", message |-> "", code |-> None]

Raise(p, e) == /\ err' = [err EXCEPT ![p] = e]
               /\ pc' = [pc EXCEPT ![p] = "raised"]

(* --------------------------- the filesystem ---------------------------- *)

File(content, mode) == [content |-> content, mode |-> mode]
NoFiles == [n \in {} |-> File(<< >>, ModeCreated)]
\* the install directory: whether it exists, and its files
Dir(exists, fs) == [exists |-> exists, files |-> fs]

\* a write of byte b at offset o (0-based) of a file: POSIX fills a hole
\* left by another writer's truncation with zero bytes
RECURSIVE Zeros(_)
Zeros(n) == IF n <= 0 THEN << >> ELSE <<0>> \o Zeros(n - 1)

WriteAt(content, o, b) ==
    IF o < Len(content) THEN [content EXCEPT ![o + 1] = b]
    ELSE content \o Zeros(o - Len(content)) \o <<b>>

\* open(file_path, "wb"): create with the default mode, or truncate an
\* existing file, which keeps its mode
OpenWb(fs, name) ==
    IF name \in DOMAIN fs
    THEN [fs EXCEPT ![name].content = << >>]
    ELSE [n \in DOMAIN fs \cup {name} |->
            IF n = name THEN [content |-> << >>, mode |-> ModeCreated] ELSE fs[n]]

(* ------------------------------- main ---------------------------------- *)

\* a builder that takes the last value given for --rules and --dir
BuildCmd_LastValues(filename) ==
    IF operation[1] = "validate"
    THEN IF rules = None
         THEN [raise |-> TypeErr, cmd |-> ""]
         ELSE [raise |-> NoErr,
               cmd |-> "validate --rules=" \o rules[Len(rules)] \o " --data=" \o filename]
    ELSE IF operation[1] = "test"
    THEN IF dir = None
         THEN [raise |-> TypeErr, cmd |-> ""]
         ELSE [raise |-> NoErr, cmd |-> "test --dir=" \o dir[Len(dir)]]
    ELSE [raise |-> UnknownOperationErr, cmd |-> ""]

\* a builder whose else branch is the test command
BuildCmd_ElseTest(filename) ==
    IF operation[1] = "validate"
    THEN IF rules = None
         THEN [raise |-> TypeErr, cmd |-> ""]
         ELSE [raise |-> NoErr,
               cmd |-> "validate --rules=" \o rules[1] \o " --data=" \o filename]
    ELSE IF dir = None
         THEN [raise |-> TypeErr, cmd |-> ""]
         ELSE [raise |-> NoErr, cmd |-> "test --dir=" \o dir[1]]

\* lines 154-159: the command for one filename, or the exception raised
BuildCmd(filename) ==
    IF operation[1] = "validate"
    THEN IF rules = None
         THEN [raise |-> TypeErr, cmd |-> ""]
         ELSE [raise |-> NoErr,
               cmd |-> "validate --rules=" \o rules[1] \o " --data=" \o filename]
    ELSE IF operation[1] = "test"
    THEN IF dir = None
         THEN [raise |-> TypeErr, cmd |-> ""]
         ELSE [raise |-> NoErr, cmd |-> "test --dir=" \o dir[1]]
    ELSE [raise |-> UnknownOperationErr, cmd |-> ""]

\* a loop that also ends at the first failing file
MainReturn_StopOnFailure(p) ==
    /\ pc[p] = "main_for"
    /\ idx[p] = Len(filenames) \/ exit_code[p] # 0
    /\ pc' = [pc EXCEPT ![p] = "done"]
    /\ UNCHANGED <<argvVars, envVars, fsVars, caller, mainVars, depth, err,
                   instVars, hist>>

\* line 153 exhausted, line 165: return exit_code
MainReturn(p) ==
    /\ pc[p] = "main_for"
    /\ idx[p] = Len(filenames)
    /\ pc' = [pc EXCEPT ![p] = "done"]
    /\ UNCHANGED <<argvVars, envVars, fsVars, caller, mainVars, depth, err,
                   instVars, hist>>

\* lines 153-161: next filename, build cmd, call run_cfn_guard(cmd)
MainBuild(p) ==
    /\ pc[p] = "main_for"
    /\ idx[p] < Len(filenames)
    /\ LET b == BuildCmd(filenames[idx[p] + 1]) IN
         IF b.raise # NoErr
         THEN /\ Raise(p, b.raise)
              /\ UNCHANGED <<cmd, depth, hist>>
         ELSE /\ cmd' = [cmd EXCEPT ![p] = b.cmd]
              /\ depth' = [depth EXCEPT ![p] = 1]
              /\ pc' = [pc EXCEPT ![p] = "run_check"]
              /\ hist' = [hist EXCEPT ![p].cmds = Append(@, b.cmd),
                                      ![p].callInstalls = 0,
                                      ![p].callReturns = 0]
              /\ UNCHANGED err
    /\ UNCHANGED <<argvVars, envVars, fsVars, caller, idx, exit_code, result,
                   instVars>>

\* aggregations main does not do: overwrite with every result, keep the largest
Aggregate_Overwrite(code, res) == res
Aggregate_Worst(code, res) == IF res > code THEN res ELSE code

\* an aggregation that keeps the first non-zero result
Aggregate_First(code, res) == IF code = 0 THEN res ELSE code

\* lines 162-163: remember a non-zero result, then the next iteration
Aggregate(code, res) == IF res # 0 THEN res ELSE code

MainResult(p) ==
    /\ pc[p] = "main_result"
    /\ exit_code' = [exit_code EXCEPT ![p] = Aggregate(exit_code[p], result[p])]
    /\ idx' = [idx EXCEPT ![p] = @ + 1]
    /\ pc' = [pc EXCEPT ![p] = "main_for"]
    /\ hist' = [hist EXCEPT ![p].results = Append(@, result[p])]
    /\ UNCHANGED <<argvVars, envVars, fsVars, caller, result, cmd, depth, err,
                   instVars>>

(* --------------------------- run_cfn_guard ----------------------------- *)

\* run_cfn_guard without the existence test: it spawns right away
RunCheck_NoExistsTest(p) ==
    /\ pc[p] = "run_check"
    /\ pc' = [pc EXCEPT ![p] = "run_spawn"]
    /\ hist' = [hist EXCEPT ![p].absentAtEntry =
                                IF depth[p] = 1 THEN ~BinaryExists ELSE @]
    /\ UNCHANGED <<argvVars, envVars, fsVars, caller, mainVars, depth, err,
                   instVars>>

\* run_cfn_guard that installs at every outer call, present binary or not
RunCheck_AlwaysInstall(p) ==
    /\ pc[p] = "run_check"
    /\ IF BinaryExists /\ depth[p] > 1
       THEN /\ pc' = [pc EXCEPT ![p] = "run_spawn"]
            /\ UNCHANGED hist
       ELSE /\ pc' = [pc EXCEPT ![p] = "inst_start"]
            /\ hist' = [hist EXCEPT ![p].absentAtEntry = ~BinaryExists,
                                    ![p].installs = @ + 1,
                                    ![p].callInstalls = @ + 1,
                                    ![p].atCall = Dir(dirExists, files)]
    /\ UNCHANGED <<argvVars, envVars, fsVars, caller, mainVars, depth, err,
                   instVars>>

\* run_cfn_guard that waits while another process is installing
RunCheck_Locked(p) ==
    /\ pc[p] = "run_check"
    /\ \A q \in Procs \ {p} : pc[q] \notin {"inst_start", "inst_download", "inst_makedirs",
                                           "inst_member", "inst_open", "inst_copy",
                                           "inst_chmod", "inst_remove"}
    /\ IF BinaryExists
       THEN /\ pc' = [pc EXCEPT ![p] = "run_spawn"]
            /\ hist' = [hist EXCEPT ![p].absentAtEntry =
                                        IF depth[p] = 1 THEN FALSE ELSE @]
       ELSE /\ pc' = [pc EXCEPT ![p] = "inst_start"]
            /\ hist' = [hist EXCEPT ![p].absentAtEntry =
                                        IF depth[p] = 1 THEN TRUE ELSE @,
                                    ![p].installs = @ + 1,
                                    ![p].callInstalls = @ + 1,
                                    ![p].atCall = Dir(dirExists, files)]
    /\ UNCHANGED <<argvVars, envVars, fsVars, caller, mainVars, depth, err,
                   instVars>>

\* lines 120-123 and 132-134: the existence test, and on its else branch
\* the call of install_cfn_guard()
RunCheck(p) ==
    /\ pc[p] = "run_check"
    /\ IF BinaryExists
       THEN /\ pc' = [pc EXCEPT ![p] = "run_spawn"]
            /\ hist' = [hist EXCEPT ![p].absentAtEntry =
                                        IF depth[p] = 1 THEN FALSE ELSE @]
       ELSE /\ pc' = [pc EXCEPT ![p] = "inst_start"]
            /\ hist' = [hist EXCEPT ![p].absentAtEntry =
                                        IF depth[p] = 1 THEN TRUE ELSE @,
                                    ![p].installs = @ + 1,
                                    ![p].callInstalls = @ + 1,
                                    ![p].atCall = Dir(dirExists, files)]
    /\ UNCHANGED <<argvVars, envVars, fsVars, caller, mainVars, depth, err,
                   instVars>>

\* the member that ends up in the file called n: the last one of that basename
LastNamed(arch, n) ==
    CHOOSE i \in 1..Len(arch) :
        /\ ~arch[i].isdir /\ basename(arch[i].name) = n
        /\ \A j \in (i + 1)..Len(arch) : arch[j].isdir \/ basename(arch[j].name) # n
\* the binary's complete content
CompleteBinary(arch) == arch[LastNamed(arch, get_binary_name)].data

\* what the shell can do with the file at binary_path
Runnable == /\ BinaryExists
            /\ files[get_binary_name].mode = ModeExecutable

\* the file at binary_path holds the whole binary of the release
Intact == /\ BinaryExists
          /\ \E i \in 1..Len(archive) :
                ~archive[i].isdir /\ basename(archive[i].name) = get_binary_name
          /\ files[get_binary_name].content = CompleteBinary(archive)

\* the child's exit status: the tool's own for the whole binary, the
\* shell's 126 for a file it cannot execute, and either for an executable
\* file that another writer has truncated or not yet filled
ChildStatuses ==
    IF ~Runnable THEN CannotExecute
    ELSE IF Intact THEN ExitCodes
    ELSE ExitCodes \cup CannotExecute

\* line 128: subprocess.run(..., check=True) raises CalledProcessError on a
\* non-zero status
subprocess_run(status) ==
    [raised |-> status # 0, returncode |-> status]

\* an except branch that reports a fixed failure code
RunReturnValue_One(outcome) ==
    IF outcome.raised THEN 1 ELSE outcome.returncode

\* lines 129-131: the value run_cfn_guard returns for an outcome of line 128
RunReturnValue(outcome) ==
    IF outcome.raised THEN outcome.returncode  \* except branch, e.returncode
    ELSE outcome.returncode                    \* result.returncode

\* lines 124-131 (and line 135 for the frames below): spawn the child, wait
\* for it, return its status to main
RunSpawn(p) ==
    /\ pc[p] = "run_spawn"
    /\ \E status \in ChildStatuses :
         /\ result' = [result EXCEPT ![p] = RunReturnValue(subprocess_run(status))]
         /\ hist' = [hist EXCEPT ![p].statuses = Append(@, status),
                                 ![p].spawnedMissing = @ \/ ~BinaryExists]
    /\ depth' = [depth EXCEPT ![p] = 0]
    /\ pc' = [pc EXCEPT ![p] = "main_result"]
    /\ UNCHANGED <<argvVars, envVars, fsVars, caller, idx, exit_code, cmd, err,
                   instVars>>

(* ------------------------- install_cfn_guard --------------------------- *)

\* the member being extracted
Member(p) == archive[mi[p]]
\* a target named after the member's top-level directory
Target_TopComponent(p) == Member(p).name[1]

Target(p) == basename(Member(p).name)

\* an install that never tests the operating system
InstStart_NoOsTest(p) ==
    /\ pc[p] = "inst_start"
    /\ pc' = [pc EXCEPT ![p] = "inst_download"]
    /\ UNCHANGED <<argvVars, envVars, fsVars, caller, mainVars, depth, err,
                   instVars, hist>>

\* lines 82-84 and 113-114: the operating system test
InstStart(p) ==
    /\ pc[p] = "inst_start"
    /\ IF current_os \in supported_oses
       THEN /\ pc' = [pc EXCEPT ![p] = "inst_download"]
            /\ UNCHANGED err
       ELSE Raise(p, UnsupportedOsErr)
    /\ UNCHANGED <<argvVars, envVars, fsVars, caller, mainVars, depth,
                   instVars, hist>>

\* an install that creates the install directory before the download
InstDownload_MakedirsFirst(p) ==
    /\ pc[p] = "inst_download"
    /\ tmp' = [tmp EXCEPT ![p] = TRUE]
    /\ dirExists' = TRUE
    /\ hist' = [hist EXCEPT ![p].downloads = @ + 1]
    /\ \E ok \in BOOLEAN :
         IF ok THEN /\ pc' = [pc EXCEPT ![p] = "inst_makedirs"]
                    /\ UNCHANGED err
         ELSE Raise(p, URLErr)
    /\ UNCHANGED <<argvVars, envVars, files, caller, mainVars, depth, mi, off>>

\* lines 85-89: create the temporary file, GET the release into it; the
\* request can fail
InstDownload(p) ==
    /\ pc[p] = "inst_download"
    /\ tmp' = [tmp EXCEPT ![p] = TRUE]
    /\ hist' = [hist EXCEPT ![p].downloads = @ + 1]
    /\ \E ok \in BOOLEAN :
         IF ok THEN /\ pc' = [pc EXCEPT ![p] = "inst_makedirs"]
                    /\ UNCHANGED err
         ELSE Raise(p, URLErr)
    /\ UNCHANGED <<argvVars, envVars, fsVars, caller, mainVars, depth, mi, off>>

\* os.makedirs without exist_ok
InstMakedirs_NotExistOk(p) ==
    /\ pc[p] = "inst_makedirs"
    /\ IF dirExists
       THEN /\ Raise(p, FileExistsErr)
            /\ UNCHANGED <<dirExists, hist, mi>>
       ELSE /\ dirExists' = TRUE
            /\ hist' = [hist EXCEPT ![p].mkdirs = @ + 1]
            /\ mi' = [mi EXCEPT ![p] = 1]
            /\ pc' = [pc EXCEPT ![p] = "inst_member"]
            /\ UNCHANGED err
    /\ UNCHANGED <<argvVars, envVars, files, caller, mainVars, depth, tmp, off>>

\* lines 92-94: os.makedirs(install_dir, exist_ok=True), open the tarball
InstMakedirs(p) ==
    /\ pc[p] = "inst_makedirs"
    /\ dirExists' = TRUE
    /\ hist' = [hist EXCEPT ![p].mkdirs = @ + (IF dirExists THEN 0 ELSE 1)]
    /\ mi' = [mi EXCEPT ![p] = 1]
    /\ pc' = [pc EXCEPT ![p] = "inst_member"]
    /\ UNCHANGED <<argvVars, envVars, files, caller, mainVars, depth, err, tmp,
                   off>>

\* lines 96-102: next member; directories are skipped
InstMember(p) ==
    /\ pc[p] = "inst_member"
    /\ IF mi[p] > Len(archive)
       THEN /\ pc' = [pc EXCEPT ![p] = "inst_chmod"]
            /\ UNCHANGED mi
       ELSE IF Member(p).isdir
       THEN /\ mi' = [mi EXCEPT ![p] = @ + 1]
            /\ UNCHANGED pc
       ELSE /\ pc' = [pc EXCEPT ![p] = "inst_open"]
            /\ UNCHANGED mi
    /\ UNCHANGED <<argvVars, envVars, fsVars, caller, mainVars, depth, err, tmp,
                   off, hist>>

\* lines 104-106: open(file_path, "wb"); the open can fail
InstOpen(p) ==
    /\ pc[p] = "inst_open"
    /\ \E ok \in BOOLEAN :
         IF ok THEN /\ files' = OpenWb(files, Target(p))
                    /\ off' = [off EXCEPT ![p] = 0]
                    /\ pc' = [pc EXCEPT ![p] = "inst_copy"]
                    /\ hist' = [hist EXCEPT ![p].opens = @ + 1]
                    /\ UNCHANGED err
         ELSE /\ Raise(p, OSErr)
              /\ UNCHANGED <<files, off, hist>>
    /\ UNCHANGED <<argvVars, envVars, dirExists, caller, mainVars, depth, tmp, mi>>

\* line 108: shutil.copyfileobj copies the member piece by piece, each write
\* can fail; at the end of the member both files are closed
InstCopy(p) ==
    /\ pc[p] = "inst_copy"
    /\ IF off[p] < Len(Member(p).data)
       THEN \E ok \in BOOLEAN :
              IF ok THEN /\ files' = [files EXCEPT ![Target(p)].content =
                                        WriteAt(@, off[p], Member(p).data[off[p] + 1])]
                         /\ off' = [off EXCEPT ![p] = @ + 1]
                         /\ UNCHANGED <<pc, err, mi>>
              ELSE /\ Raise(p, OSErr)
                   /\ UNCHANGED <<files, off, mi>>
       ELSE /\ mi' = [mi EXCEPT ![p] = @ + 1]
            /\ pc' = [pc EXCEPT ![p] = "inst_member"]
            /\ UNCHANGED <<files, off, err>>
    /\ UNCHANGED <<argvVars, envVars, dirExists, caller, mainVars, depth, tmp,
                   hist>>

\* a chmod step that passes over a missing file
InstChmod_IgnoreMissing(p) ==
    /\ pc[p] = "inst_chmod"
    /\ IF get_binary_name \in DOMAIN files
       THEN /\ files' = [files EXCEPT ![get_binary_name].mode = ModeExecutable]
            /\ hist' = [hist EXCEPT ![p].chmods = @ + 1]
       ELSE UNCHANGED <<files, hist>>
    /\ pc' = [pc EXCEPT ![p] = "inst_remove"]
    /\ UNCHANGED <<argvVars, envVars, dirExists, caller, mainVars, depth, err,
                   instVars>>

\* lines 110-111: os.chmod(binary_path, 0o755) raises when the file is missing
InstChmod(p) ==
    /\ pc[p] = "inst_chmod"
    /\ IF get_binary_name \in DOMAIN files
       THEN /\ files' = [files EXCEPT ![get_binary_name].mode = ModeExecutable]
            /\ pc' = [pc EXCEPT ![p] = "inst_remove"]
            /\ hist' = [hist EXCEPT ![p].chmods = @ + 1]
            /\ UNCHANGED err
       ELSE /\ Raise(p, FileNotFoundErr)
            /\ UNCHANGED <<files, hist>>
    /\ UNCHANGED <<argvVars, envVars, dirExists, caller, mainVars, depth,
                   instVars>>

\* line 112: os.remove(temp_file.name), and the return: to line 135 of
\* run_cfn_guard, which calls itself, or to a direct caller
InstRemove(p) ==
    /\ pc[p] = "inst_remove"
    /\ tmp' = [tmp EXCEPT ![p] = FALSE]
    /\ hist' = [hist EXCEPT ![p].snaps =
                                Append(@, [before |-> hist[p].atCall, after |-> files]),
                            ![p].callReturns = @ + 1]
    /\ IF caller[p] = "main"
       THEN /\ depth' = [depth EXCEPT ![p] = @ + 1]
            /\ pc' = [pc EXCEPT ![p] = "run_check"]
       ELSE /\ pc' = [pc EXCEPT ![p] = "inst_done"]
            /\ UNCHANGED depth
    /\ UNCHANGED <<argvVars, envVars, fsVars, caller, mainVars, err, mi, off>>

\* install_cfn_guard() called on its own (line 76), once the process's
\* previous call has ended
DirectInstall(p) ==
    /\ pc[p] \in {"start", "inst_done", "raised"}
    /\ caller[p] = "direct"
    /\ hist[p].installs < MaxDirectInstalls
    /\ err' = [err EXCEPT ![p] = NoErr]
    /\ pc' = [pc EXCEPT ![p] = "inst_start"]
    /\ hist' = [hist EXCEPT ![p].installs = @ + 1,
                            ![p].atCall = Dir(dirExists, files)]
    /\ UNCHANGED <<argvVars, envVars, fsVars, caller, mainVars, depth, instVars>>

\* a main that validates the operation before it looks at the filenames
MainStart_CheckOperation(p) ==
    /\ pc[p] = "start"
    /\ caller[p] = "main"
    /\ IF operation[1] \in {"validate", "test"}
       THEN /\ pc' = [pc EXCEPT ![p] = "main_for"]
            /\ UNCHANGED err
       ELSE Raise(p, UnknownOperationErr)
    /\ exit_code' = [exit_code EXCEPT ![p] = 0]
    /\ UNCHANGED <<argvVars, envVars, fsVars, caller, idx, result, cmd, depth,
                   instVars, hist>>

\* main(argv) called (line 138), argv parsed
MainStart(p) ==
    /\ pc[p] = "start"
    /\ caller[p] = "main"
    /\ pc' = [pc EXCEPT ![p] = "main_for"]
    /\ exit_code' = [exit_code EXCEPT ![p] = 0]
    /\ UNCHANGED <<argvVars, envVars, fsVars, caller, idx, result, cmd, depth,
                   err, instVars, hist>>

(* ------------------------------ the inputs ----------------------------- *)


\* release tarballs: the layout of the published one (a directory, the
\* binary and a text file below it), one without the binary, and one whose
\* members share a basename
BinaryData == <<1, 2>>
GoodArchive ==
    << [name |-> <<"cfn-guard-v3">>, isdir |-> TRUE, data |-> << >>],
       [name |-> <<"cfn-guard-v3", get_binary_name>>, isdir |-> FALSE, data |-> BinaryData],
       [name |-> <<"cfn-guard-v3", "README.md">>, isdir |-> FALSE, data |-> <<3>>] >>
NoBinaryArchive ==
    << [name |-> <<"cfn-guard-v3">>, isdir |-> TRUE, data |-> << >>],
       [name |-> <<"cfn-guard-v3", "README.md">>, isdir |-> FALSE, data |-> <<3>>] >>
DupArchive ==
    << [name |-> <<get_binary_name>>, isdir |-> FALSE, data |-> <<9>>],
       [name |-> <<"cfn-guard-v3", "bin", get_binary_name>>, isdir |-> FALSE,
        data |-> BinaryData] >>
Archives == {GoodArchive, NoBinaryArchive, DupArchive}

\* what a completed copy of member m leaves (lines 104-108)
ExtractMember(fs, m) ==
    IF m.isdir THEN fs
    ELSE [OpenWb(fs, basename(m.name)) EXCEPT ![basename(m.name)].content = m.data]

\* the directory after the first n members of arch were extracted
RECURSIVE Extracted(_, _)
Extracted(arch, n) ==
    IF n = 0 THEN NoFiles ELSE ExtractMember(Extracted(arch, n - 1), arch[n])

HasBinary(arch) ==
    \E i \in 1..Len(arch) : ~arch[i].isdir /\ basename(arch[i].name) = get_binary_name

\* what an install of arch that returned left (lines 94-111)
Installed(arch) ==
    [Extracted(arch, Len(arch)) EXCEPT ![get_binary_name].mode = ModeExecutable]

\* what an install of arch left whose copy of the first file member failed
\* before the last byte
FirstFile(arch) == CHOOSE i \in 1..Len(arch) :
                      ~arch[i].isdir /\ \A j \in 1..(i - 1) : arch[j].isdir
Interrupted(arch) ==
    LET m == arch[FirstFile(arch)] IN
    ExtractMember(NoFiles, [m EXCEPT !.data = SubSeq(m.data, 1, Len(m.data) - 1)])

\* the install directory before the run: absent, empty, or what an earlier
\* install of the pinned release left in it (the directory is under the
\* user's home, which hosts can share), finished or interrupted
InitialDirs(arch) ==
    { Dir(FALSE, NoFiles), Dir(TRUE, NoFiles), Dir(TRUE, Interrupted(arch)) }
    \cup (IF HasBinary(arch) THEN {Dir(TRUE, Installed(arch))} ELSE {})

\* argv
Operations == {<<"validate">>, <<"test", "validate">>, <<"lint">>, <<"validate", "lint">>}
RulesArgs == {None, <<"r.guard">>, <<"r.guard", "s.guard">>}
DirArgs == {None, <<"tests/">>, <<"tests/", "more/">>}
FileNames == {"t.yaml", "u.yaml"}
FileLists == UNION {[1..n -> FileNames] : n \in 0..MaxFiles}

NoHist == [cmds |-> << >>, results |-> << >>, statuses |-> << >>,
           spawnedMissing |-> FALSE, absentAtEntry |-> FALSE,
           installs |-> 0, callInstalls |-> 0, callReturns |-> 0,
           downloads |-> 0, mkdirs |-> 0,
           opens |-> 0, chmods |-> 0,
           atCall |-> Dir(FALSE, NoFiles), snaps |-> << >>]

InitEnv ==
    /\ current_os \in HostOses
    /\ archive \in Archives
    /\ \E d \in InitialDirs(archive) : dirExists = d.exists /\ files = d.files

InitProcs(running) ==
    /\ pc = [p \in Procs |-> IF p \in running THEN "start" ELSE "off"]
    /\ idx = [p \in Procs |-> 0]
    /\ exit_code = [p \in Procs |-> 0]
    /\ result = [p \in Procs |-> 0]
    /\ cmd = [p \in Procs |-> ""]
    /\ depth = [p \in Procs |-> 0]
    /\ err = [p \in Procs |-> NoErr]
    /\ tmp = [p \in Procs |-> FALSE]
    /\ mi = [p \in Procs |-> 0]
    /\ off = [p \in Procs |-> 0]
    /\ hist = [p \in Procs |-> NoHist]

\* one process: it runs main(argv), or it calls install_cfn_guard() itself
Init ==
    /\ InitEnv
    /\ InitProcs({1})
    /\ \/ /\ caller = [p \in Procs |-> "main"]
          /\ operation \in Operations
          /\ rules \in RulesArgs
          /\ dir \in DirArgs
          /\ filenames \in FileLists
       \/ /\ caller = [p \in Procs |-> "direct"]
          /\ operation = <<"validate">>
          /\ rules = None
          /\ dir = None
          /\ filenames = << >>

Next ==
    \E p \in Procs :
        \/ MainStart(p)
        \/ MainBuild(p)
        \/ MainResult(p)
        \/ MainReturn(p)
        \/ RunCheck(p)
        \/ RunSpawn(p)
        \/ DirectInstall(p)
        \/ InstStart(p)
        \/ InstDownload(p)
        \/ InstMakedirs(p)
        \/ InstMember(p)
        \/ InstOpen(p)
        \/ InstCopy(p)
        \/ InstChmod(p)
        \/ InstRemove(p)

Spec == Init /\ [][Next]_vars

\* two processes started together on a supported host whose install
\* directory does not exist yet: hooks that pre-commit runs in parallel
\* for one file each, or a caller of install_cfn_guard() next to a hook
ConcInit ==
    /\ current_os = "linux"
    /\ archive = GoodArchive
    /\ dirExists = FALSE
    /\ files = NoFiles
    /\ InitProcs(Procs)
    /\ caller \in {[p \in Procs |-> "main"],
                   [p \in Procs |-> IF p = 1 THEN "main" ELSE "direct"]}
    /\ operation = <<"validate">>
    /\ rules = <<"r.guard">>
    /\ dir = None
    /\ filenames = <<"t.yaml">>

ConcSpec == ConcInit /\ [][Next]_vars

(* ----------------------------- properties ------------------------------ *)

MainProcs == {p \in Procs : caller[p] = "main" /\ pc[p] # "off"}
InstallErrTypes == {"CfnGuardPreCommitError", "URLError", "OSError", "FileNotFoundError"}
\* the exception left install_cfn_guard (main's own raise happens before any call)
RaisedByInstall(p) ==
    /\ pc[p] = "raised"
    /\ err[p].type \in InstallErrTypes
    /\ err[p] # UnknownOperationErr
Failing(seq) == {i \in 1..Len(seq) : seq[i] # 0}
MaxOf(S) == CHOOSE m \in S : \A x \in S : x <= m

\* C1: a child process is spawned only while the file at Binary Path
\* exists; when the file was absent at run_cfn_guard's test, the spawn
\* attempt comes after install_cfn_guard was called and returned; when
\* install_cfn_guard raised, the call spawned nothing.
C1_SpawnOnlyExistingBinary ==
    \A p \in MainProcs :
        /\ pc[p] = "run_spawn" =>
              /\ BinaryExists
              /\ hist[p].absentAtEntry =>
                    hist[p].callInstalls = 1 /\ hist[p].callReturns = 1
        /\ ~hist[p].spawnedMissing
        /\ RaisedByInstall(p) =>
              /\ Len(hist[p].statuses) = Len(hist[p].results)
              /\ hist[p].callReturns = 0

\* C1 witness: about to spawn after an install that this call made
C1_Witness ==
    \E p \in MainProcs :
        /\ pc[p] = "run_spawn"
        /\ hist[p].absentAtEntry
        /\ hist[p].callReturns = 1
        /\ BinaryExists

\* C2: main returns 0 exactly when every per-file invocation returned 0,
\* wherever in the batch a failing file stands.
C2_ZeroIffAllZero ==
    \A p \in MainProcs :
        pc[p] = "done" =>
            /\ Len(hist[p].results) = Len(filenames)
            /\ (exit_code[p] = 0) <=> (Failing(hist[p].results) = {})

\* C2 witness: the first file fails, the last passes, the result is non-zero
C2_Witness ==
    \E p \in MainProcs :
        /\ pc[p] = "done"
        /\ Len(hist[p].results) = MaxFiles
        /\ hist[p].results[1] # 0
        /\ hist[p].results[MaxFiles] = 0
        /\ exit_code[p] # 0

\* C3 as stated: with failing files, main returns the largest of the
\* per-file codes.
C3_WorstOfAll ==
    \A p \in MainProcs :
        (pc[p] = "done" /\ Failing(hist[p].results) # {}) =>
            exit_code[p] = MaxOf({hist[p].results[i] : i \in Failing(hist[p].results)})

\* C3 amended: with failing files, main returns the code of the last
\* failing file in list order; it is one of the per-file codes and never
\* above the largest of them.
C3_LastFailing ==
    \A p \in MainProcs :
        (pc[p] = "done" /\ Failing(hist[p].results) # {}) =>
            /\ exit_code[p] = hist[p].results[MaxOf(Failing(hist[p].results))]
            /\ exit_code[p] <= MaxOf({hist[p].results[i] : i \in Failing(hist[p].results)})

\* C3 witness: two files fail with different codes, the smaller one last
C3_Witness ==
    \E p \in MainProcs :
        /\ pc[p] = "done"
        /\ Len(hist[p].results) >= 2
        /\ hist[p].results[Len(hist[p].results) - 1] = 19
        /\ hist[p].results[Len(hist[p].results)] = 7
        /\ exit_code[p] = 7

\* C4: run_cfn_guard returns the child's exit status as it is, zero or
\* not, and a non-zero status raises nothing; for a batch of one file main
\* returns exactly that status.
C4_StatusVerbatim ==
    \A p \in MainProcs :
        /\ Len(hist[p].results) <= Len(hist[p].statuses)
        /\ \A i \in 1..Len(hist[p].results) : hist[p].results[i] = hist[p].statuses[i]
        /\ pc[p] = "main_result" =>
              result[p] = hist[p].statuses[Len(hist[p].statuses)]
        /\ err[p].type # CalledProcessErr.type
        /\ (pc[p] = "done" /\ Len(filenames) = 1) =>
              exit_code[p] = hist[p].statuses[1]

\* C4 witness: a batch of one file whose child exited 19
C4_Witness ==
    \E p \in MainProcs :
        /\ pc[p] = "done"
        /\ Len(filenames) = 1
        /\ hist[p].statuses = <<19>>
        /\ exit_code[p] = 19

\* C5: the command handed to run_cfn_guard for the i-th filename is
\* "validate --rules=<rules[0]> --data=<filename>" for validate and
\* "test --dir=<dir[0]>" for test; values after the first of --operation,
\* --rules and --dir never reach it, and for test it is the same for every
\* filename.
C5_Expected(i) ==
    IF operation[1] = "validate"
    THEN "validate --rules=" \o rules[1] \o " --data=" \o filenames[i]
    ELSE "test --dir=" \o dir[1]

C5_CommandString ==
    \A p \in MainProcs :
        /\ Len(hist[p].cmds) <= Len(filenames)
        /\ \A i \in 1..Len(hist[p].cmds) :
              /\ operation[1] \in {"validate", "test"}
              /\ hist[p].cmds[i] = C5_Expected(i)
              /\ operation[1] = "validate" =>
                    hist[p].cmds[i] \in {"validate --rules=r.guard --data=t.yaml",
                                         "validate --rules=r.guard --data=u.yaml"}
              /\ operation[1] = "test" => hist[p].cmds[i] = "test --dir=tests/"
        /\ pc[p] \in {"run_check", "run_spawn"} =>
              cmd[p] = hist[p].cmds[Len(hist[p].cmds)]

\* C5 witness: repeated --rules, and both commands of a two-file batch
C5_Witness ==
    \E p \in MainProcs :
        /\ rules = <<"r.guard", "s.guard">>
        /\ filenames = <<"t.yaml", "u.yaml">>
        /\ hist[p].cmds = <<"validate --rules=r.guard --data=t.yaml",
                            "validate --rules=r.guard --data=u.yaml">>

UnknownOperation == operation[1] \notin {"validate", "test"}

\* C6: with an operation other than validate and test and at least one
\* filename, main raises the unknown-operation error; no command is built,
\* nothing is installed, downloaded or spawned, and no file is invoked.
C6_UnknownOperation ==
    \A p \in MainProcs :
        (UnknownOperation /\ filenames # << >>) =>
            /\ pc[p] \in {"start", "main_for", "raised"}
            /\ pc[p] = "raised" => err[p] = UnknownOperationErr
            /\ pc[p] # "raised" => err[p] = NoErr
            /\ hist[p] = NoHist
            /\ idx[p] = 0 /\ depth[p] = 0 /\ ~tmp[p]

\* C6 witness: the error raised for a two-file batch with no binary installed
C6_Witness ==
    \E p \in MainProcs :
        /\ pc[p] = "raised"
        /\ err[p] = UnknownOperationErr
        /\ operation = <<"lint">>
        /\ Len(filenames) = MaxFiles
        /\ ~BinaryExists

Unsupported == current_os \notin supported_oses
\* the command for the first filename can be built
ValidRun == filenames # << >> /\ BuildCmd(filenames[1]).raise = NoErr
NoInstallEffects(p) ==
    /\ hist[p].downloads = 0 /\ hist[p].mkdirs = 0 /\ hist[p].opens = 0
    /\ hist[p].chmods = 0 /\ ~tmp[p]

\* C7 as stated: on an unsupported operating system every main run with a
\* valid operation and a filename ends with the unsupported-platform
\* error, whatever the install directory held, and nothing is spawned.
C7_UnsupportedAlwaysFails ==
    \A p \in MainProcs :
        (Unsupported /\ ValidRun) =>
            /\ pc[p] # "done"
            /\ pc[p] = "raised" => err[p] = UnsupportedOsErr
            /\ hist[p].statuses = << >>
            /\ NoInstallEffects(p)

\* C7 amended: on an unsupported operating system a main run with a valid
\* operation and a filename that finds Binary Path absent ends with the
\* unsupported-platform error (code 1) and spawns nothing; whether or not
\* Binary Path exists, nothing is downloaded, created, extracted or
\* chmod-ed.
C7_UnsupportedFailsWhenAbsent ==
    \A p \in MainProcs :
        (Unsupported /\ ValidRun) =>
            /\ NoInstallEffects(p)
            /\ ~BinaryExists =>
                  /\ pc[p] \in {"start", "main_for", "run_check", "inst_start", "raised"}
                  /\ pc[p] = "raised" =>
                        /\ err[p] = UnsupportedOsErr
                        /\ err[p].code = <<1>>
                  /\ hist[p].statuses = << >>

\* C7 witness: the error raised with the install directory absent
C7_Witness ==
    \E p \in MainProcs :
        /\ Unsupported
        /\ ValidRun
        /\ ~dirExists
        /\ pc[p] = "raised"
        /\ err[p] = UnsupportedOsErr

\* C9: with no filenames main returns 0 whatever --operation, --rules and
\* --dir are, and installs, downloads and spawns nothing.
C9_EmptyFilenames ==
    \A p \in MainProcs :
        filenames = << >> =>
            /\ pc[p] \in {"start", "main_for", "done"}
            /\ exit_code[p] = 0
            /\ err[p] = NoErr
            /\ hist[p] = NoHist
            /\ ~tmp[p]

\* C9 witness: 0 returned for an unknown operation with no binary installed
C9_Witness ==
    \E p \in MainProcs :
        /\ filenames = << >>
        /\ pc[p] = "done"
        /\ exit_code[p] = 0
        /\ UnknownOperation
        /\ rules = None /\ dir = None
        /\ ~BinaryExists

RunningProcs == {p \in Procs : pc[p] # "off"}
EnvironmentErrTypes == {URLErr.type, OSErr.type}
InstallPcs == {"inst_start", "inst_download", "inst_makedirs", "inst_member",
               "inst_open", "inst_copy", "inst_chmod", "inst_remove"}

\* C8: install_cfn_guard called while the binary exists at Binary Path
\* raises nothing on account of the directory or the files existing, and
\* when it returns the install directory is as the first install left it:
\* the same files, the binary complete and with mode 0755.
C8_ReinstallSameState ==
    \A p \in RunningProcs :
        /\ \A i \in 1..Len(hist[p].snaps) :
              LET s == hist[p].snaps[i] IN
              /\ s.after = hist[p].snaps[1].after
              /\ get_binary_name \in DOMAIN s.after
              /\ s.after[get_binary_name] = File(BinaryData, ModeExecutable)
              /\ (HasBinary(archive) /\ s.before = Dir(TRUE, Installed(archive))) =>
                    s.after = s.before.files
        /\ (pc[p] = "raised" /\ current_os \in supported_oses
              /\ hist[p].atCall.exists
              /\ get_binary_name \in DOMAIN hist[p].atCall.files) =>
                err[p].type \in EnvironmentErrTypes

\* C8 witness: a second install over the first one's result has returned
C8_Witness ==
    \E p \in RunningProcs :
        /\ caller[p] = "direct"
        /\ pc[p] = "inst_done"
        /\ Len(hist[p].snaps) = 2
        /\ ~hist[p].snaps[1].before.exists
        /\ hist[p].snaps[2].before = Dir(TRUE, hist[p].snaps[1].after)
        /\ hist[p].snaps[2].after = hist[p].snaps[1].after
        /\ files = hist[p].snaps[1].after

\* the process keeps executing: a step that can be taken is taken (the
\* program is sequential and every I/O call returns or raises)
FairSpec == Spec /\ WF_vars(Next)

\* C10 (the safety part): a run_cfn_guard call that finds Binary Path absent makes one
\* install_cfn_guard call, in its outer frame, and recurses once:
\* when install_cfn_guard has returned, the chmod-ed file is at Binary Path
\* and the inner frame takes the execute branch; when the archive holds no
\* member of the binary's name, install_cfn_guard does not return and the
\* call ends with an exception.
C10_Inv ==
    \A p \in MainProcs :
        /\ depth[p] <= 2
        /\ hist[p].callInstalls <= 1
        /\ hist[p].callReturns <= hist[p].callInstalls
        /\ pc[p] \in InstallPcs =>
              depth[p] = 1 /\ hist[p].absentAtEntry /\ hist[p].callReturns = 0
        /\ depth[p] = 2 =>
              /\ hist[p].absentAtEntry
              /\ hist[p].callReturns = 1
              /\ pc[p] \in {"run_check", "run_spawn"}
              /\ BinaryExists
              /\ files[get_binary_name].mode = ModeExecutable
        /\ (hist[p].callInstalls = 1 /\ ~HasBinary(archive)) =>
              /\ pc[p] \in InstallPcs \cup {"raised"}
              /\ hist[p].callReturns = 0
              /\ pc[p] = "raised" => err[p] # NoErr

\* C10: every run_cfn_guard call that finds Binary Path absent makes at
\* most one install_cfn_guard call, recurses once (C10_Inv) and
\* terminates: it gets to the spawn or to an exception.
C10_InstallOnceThenRun ==
    /\ []C10_Inv
    /\ \A p \in Procs :
          (p \in MainProcs /\ pc[p] = "run_check" /\ depth[p] = 1 /\ ~BinaryExists)
            ~> (pc[p] \in {"run_spawn", "raised"})

\* C10 witness: the inner frame at its existence test after the one install
C10_Witness ==
    \E p \in MainProcs :
        /\ depth[p] = 2
        /\ pc[p] = "run_check"
        /\ hist[p].callInstalls = 1
        /\ hist[p].callReturns = 1
        /\ BinaryExists

\* C10 witness of the other case: the archive lacks the binary and chmod raised
C10_WitnessNoBinary ==
    \E p \in MainProcs :
        /\ ~HasBinary(archive)
        /\ pc[p] = "raised"
        /\ err[p] = FileNotFoundErr
        /\ hist[p].callInstalls = 1
        /\ depth[p] = 1

\* C11: in every state a file at Binary Path with executable permission
\* holds the complete binary: during a first install, during a re-install
\* over an installed binary, and after an install that an I/O failure ended.
C11_ExecutableImpliesComplete ==
    (BinaryExists /\ files[get_binary_name].mode = ModeExecutable) =>
        /\ HasBinary(archive)
        /\ files[get_binary_name].content = CompleteBinary(archive)

\* C12: within one main run the archive is downloaded at most once, while
\* the first file is handled and only when Binary Path was absent then;
\* after an install that returned, the later files reuse the binary; with
\* Binary Path present at the start there is no download.
C12_DownloadAtMostOnce ==
    \A p \in MainProcs :
        /\ hist[p].downloads <= 1
        /\ hist[p].installs <= 1
        /\ pc[p] \in InstallPcs => idx[p] = 0 /\ hist[p].statuses = << >>
        /\ hist[p].installs = 1 =>
              /\ ~hist[p].atCall.exists \/ get_binary_name \notin DOMAIN hist[p].atCall.files
              /\ hist[p].cmds # << >>
        /\ hist[p].downloads = 1 => hist[p].installs = 1
        /\ idx[p] >= 1 =>
              /\ pc[p] \notin InstallPcs
              /\ BinaryExists
              /\ Len(hist[p].snaps) = hist[p].downloads

\* C12 witness: a full batch ran on the one download of its first file
C12_Witness ==
    \E p \in MainProcs :
        /\ pc[p] = "done"
        /\ Len(filenames) = MaxFiles
        /\ Len(hist[p].statuses) = MaxFiles
        /\ hist[p].downloads = 1
        /\ Len(hist[p].snaps) = 1

\* the results main has seen so far
LastFailing(seq) == IF Failing(seq) = {} THEN 0 ELSE seq[MaxOf(Failing(seq))]

\* C13: at every point of the loop exit_code is the result of the last
\* failing file seen so far (0 when none failed): a failing file
\* overwrites it, a passing file leaves it; so main returns the code of the
\* last failing file, which need not be the largest.
C13_LastFailingSoFar ==
    \A p \in MainProcs :
        /\ exit_code[p] = LastFailing(hist[p].results)
        /\ pc[p] = "main_result" =>
              Aggregate(exit_code[p], result[p]) =
                  LastFailing(Append(hist[p].results, result[p]))

\* C13 witness: 19 overwritten by the later 7, before main returns
C13_Witness ==
    \E p \in MainProcs :
        /\ pc[p] = "main_for"
        /\ hist[p].results = <<19, 7>>
        /\ exit_code[p] = 7
        /\ exit_code[p] < MaxOf({hist[p].results[i] : i \in 1..2})

\* C14: main invokes the executable once per filename, one after the
\* other in list order, and a non-zero result does not end the loop: when
\* main returns, the spawns are as many as the filenames.
C14_OncePerFileInOrder ==
    \A p \in MainProcs :
        /\ idx[p] = Len(hist[p].results)
        /\ Len(hist[p].statuses) <= Len(hist[p].cmds)
        /\ Len(hist[p].cmds) <= Len(hist[p].results) + 1
        /\ Len(hist[p].statuses) - Len(hist[p].results) \in {0, 1}
        /\ Len(hist[p].cmds) > Len(hist[p].results) =>
              pc[p] \in InstallPcs \cup {"run_check", "run_spawn", "main_result", "raised"}
        /\ \A i \in 1..Len(hist[p].cmds) :
              operation[1] = "validate" =>
                  hist[p].cmds[i] = "validate --rules=r.guard --data=" \o filenames[i]
        /\ pc[p] = "done" =>
              /\ Len(hist[p].statuses) = Len(filenames)
              /\ Len(hist[p].cmds) = Len(filenames)

\* C14 witness: the first file failed and the last one was still invoked
C14_Witness ==
    \E p \in MainProcs :
        /\ pc[p] = "done"
        /\ filenames = <<"u.yaml", "t.yaml">>
        /\ hist[p].statuses[1] = 19
        /\ Len(hist[p].statuses) = 2
        /\ hist[p].cmds[2] = "validate --rules=r.guard --data=t.yaml"

\* the steps main, run_cfn_guard and install_cfn_guard take for the files
MainSteps(p) ==
    \/ MainBuild(p) \/ MainResult(p) \/ MainReturn(p) \/ RunCheck(p)
    \/ RunSpawn(p) \/ InstDownload(p)

\* C15: when the download fails, the error leaves install_cfn_guard,
\* run_cfn_guard and main: there was one download attempt, no child
\* process for the call, no later file is processed, and the install
\* directory is as it was before the call (not created, no file written
\* or changed).
C15_DownloadFailure ==
    \A p \in RunningProcs :
        (pc[p] = "raised" /\ err[p] = URLErr) =>
            /\ Dir(dirExists, files) = hist[p].atCall
            /\ hist[p].downloads <= hist[p].installs
            /\ caller[p] = "main" =>
                  /\ hist[p].downloads = 1
                  /\ hist[p].mkdirs = 0 /\ hist[p].opens = 0 /\ hist[p].chmods = 0
                  /\ hist[p].statuses = << >>
                  /\ hist[p].results = << >>
                  /\ Len(hist[p].cmds) = 1
                  /\ idx[p] = 0
                  /\ exit_code[p] = 0
                  /\ ~ENABLED MainSteps(p)

\* C15 witness: the download failed for the first of MaxFiles files, with
\* no install directory
C15_Witness ==
    \E p \in MainProcs :
        /\ pc[p] = "raised"
        /\ err[p] = URLErr
        /\ Len(filenames) = MaxFiles
        /\ ~hist[p].atCall.exists
        /\ ~dirExists

\* the basenames of the file members among the first k members
NamesOf(arch, k) == {basename(arch[i].name) : i \in {j \in 1..k : ~arch[j].isdir}}

\* what the first k members of arch leave of the files fs
ExtractedOver(fs, arch, k) ==
    [n \in DOMAIN fs \cup NamesOf(arch, k) |->
        IF n \in NamesOf(arch, k)
        THEN File(arch[LastNamed(SubSeq(arch, 1, k), n)].data,
                  IF n \in DOMAIN fs THEN fs[n].mode ELSE ModeCreated)
        ELSE fs[n]]

\* C16: install_cfn_guard writes every non-directory entry to
\* install_dir/basename(entry), whatever its nesting: the files of the
\* install directory are those it held plus one per basename of a file
\* entry, directory entries give no file, no name has more than one
\* component, and of entries sharing a basename the later one's content
\* remains.
C16_FlatExtraction ==
    \A p \in RunningProcs :
        /\ pc[p] \in {"inst_member", "inst_chmod"} =>
              files = ExtractedOver(hist[p].atCall.files, archive,
                                    IF pc[p] = "inst_chmod" THEN Len(archive) ELSE mi[p] - 1)
        /\ pc[p] \in {"inst_open", "inst_copy"} =>
              /\ DOMAIN files \subseteq
                    DOMAIN hist[p].atCall.files \cup NamesOf(archive, mi[p])
              /\ \A n \in DOMAIN files \ {basename(archive[mi[p]].name)} :
                    files[n] = ExtractedOver(hist[p].atCall.files, archive, mi[p] - 1)[n]
        /\ \A i \in 1..Len(hist[p].snaps) :
              LET s == hist[p].snaps[i] IN
              /\ DOMAIN s.after = DOMAIN s.before.files \cup NamesOf(archive, Len(archive))
              /\ \A n \in NamesOf(archive, Len(archive)) :
                    s.after[n].content = archive[LastNamed(archive, n)].data
              /\ \A n \in DOMAIN s.after \ NamesOf(archive, Len(archive)) :
                    s.after[n] = s.before.files[n]
              /\ \A j \in 1..Len(archive) :
                    (archive[j].isdir /\ basename(archive[j].name) \notin DOMAIN s.before.files)
                        => basename(archive[j].name) \notin DOMAIN s.after

\* C16 witness: an install of the archive whose two entries share a
\* basename at different depths has returned
C16_Witness ==
    \E p \in RunningProcs :
        /\ archive = DupArchive
        /\ Len(hist[p].snaps) = 1
        /\ ~hist[p].snaps[1].before.exists
        /\ DOMAIN files = {get_binary_name}
        /\ files[get_binary_name].content = BinaryData

\* C18 as stated: when install_cfn_guard has ended, by returning or by
\* raising, the temporary archive it created no longer exists.
C18_TempRemoved ==
    \A p \in RunningProcs :
        pc[p] \notin InstallPcs => ~tmp[p]

\* the next step of process p
Step(p) ==
    \/ MainStart(p) \/ MainBuild(p) \/ MainResult(p) \/ MainReturn(p)
    \/ RunCheck(p) \/ RunSpawn(p) \/ InstStart(p) \/ InstDownload(p)
    \/ InstMakedirs(p) \/ InstMember(p) \/ InstOpen(p) \/ InstCopy(p)
    \/ InstChmod(p) \/ InstRemove(p)
EndPcs == {"done", "raised", "inst_done"}

\* C17: the install is unguarded against concurrent execution. No process
\* ever waits for the other: a process that has not ended can take its
\* next step wherever the other process is, so a process that finds
\* Binary Path absent downloads and extracts although the other one is
\* doing the same, and a process that finds Binary Path spawns it although
\* the other one is still writing it or has not set its permission.
C17_Unguarded ==
    \A p \in RunningProcs :
        /\ pc[p] \notin EndPcs \cup {"start"} => ENABLED Step(p)
        /\ (pc[p] = "run_check" /\ ~BinaryExists) =>
              ENABLED (RunCheck(p) /\ pc'[p] = "inst_start")
        /\ (pc[p] = "run_check" /\ BinaryExists) =>
              ENABLED (RunCheck(p) /\ pc'[p] = "run_spawn")
        /\ pc[p] = "run_spawn" => ENABLED RunSpawn(p)

\* C17 witness: both hook processes have downloaded the archive, and
\* process 1 has just spawned a file that the shell could not execute
\* while process 2 had not ended its install
C17_Witness ==
    /\ caller = [p \in Procs |-> "main"]
    /\ hist[1].downloads = 1
    /\ hist[2].downloads = 1
    /\ pc[1] = "main_result"
    /\ hist[1].statuses = <<126>>
    /\ hist[1].callReturns = 1
    /\ pc[2] \in {"inst_open", "inst_copy", "inst_member", "inst_chmod"}

=============================================================================
